---- MODULE Spec2Model ----
(***************************************************************************)
(* State-machine model of app.py: the Streamlit chat handler, the reply    *)
(* resolver get_bot_response and the SQLite log writer save_message_to_db. *)
(*                                                                         *)
(* A text is a sequence of string fragments whose concatenation is the     *)
(* Python string.  A user message is held character by character, because  *)
(* the FAQ match lowercases it and tests substring containment; replies    *)
(* are held as the literal fragments the code concatenates (an f-string    *)
(* with one placeholder is three fragments).                               *)
(***************************************************************************)
EXTENDS Integers, Sequences, FiniteSets, TLC

\* ---------------------------------------------------------------- bounds
\* Number of chat inputs in a long session (Spec).
MaxTurns == 12

\* Number of chat inputs in a short session (SpecFaq, SpecRemote, SpecDb).
MaxShortTurns == 2

\* Number of chat inputs in a session of SpecFair.
MaxFairTurns == 2

\* --------------------------------------------------------- configuration
CHATBOT_NAME == "Membership & Subscription Assistant"

\* First line of the multi-line literal; the remaining lines list the topics.
DOMAIN_CONTEXT ==
  << "You are a customer service chatbot for a 'Membership and Subscription Manager' service. [...]" >>

MAX_HISTORY_TURNS == 10

\* ------------------------------------------------------------ FAQ table
FAQ_KEYS ==
  << <<"h", "o", "w", " ", "t", "o", " ", "c", "a", "n", "c", "e", "l", " ", "s", "u", "b", "s", "c", "r", "i", "p", "t", "i", "o", "n">>,
     <<"c", "a", "n", "c", "e", "l", " ", "m", "y", " ", "m", "e", "m", "b", "e", "r", "s", "h", "i", "p">>,
     <<"h", "o", "w", " ", "t", "o", " ", "s", "i", "g", "n", " ", "u", "p">>,
     <<"p", "a", "y", "m", "e", "n", "t", " ", "m", "e", "t", "h", "o", "d", "s">>,
     <<"f", "o", "r", "g", "o", "t", " ", "p", "a", "s", "s", "w", "o", "r", "d">>,
     <<"c", "o", "n", "t", "a", "c", "t", " ", "s", "u", "p", "p", "o", "r", "t">>,
     <<"w", "h", "a", "t", " ", "i", "s", " ", "t", "h", "i", "s", " ", "s", "e", "r", "v", "i", "c", "e">>,
     <<"u", "p", "g", "r", "a", "d", "e", " ", "p", "l", "a", "n">>,
     <<"b", "i", "l", "l", "i", "n", "g", " ", "i", "s", "s", "u", "e">> >>

FAQ_ANSWERS ==
  << << "You can cancel your subscription by going to your account settings page and clicking on 'Cancel Subscription'. Would you like a direct link to your account settings?" >>,
     << "To cancel your membership, please log in to your account, navigate to the 'Membership Details' section, and you should find an option to cancel. If you need further assistance, I can guide you." >>,
     << "To sign up for a new membership, please visit our website's homepage and look for the 'Sign Up' or 'Join Now' button. You'll be guided through the process. Our service helps you manage all your various subscriptions in one place!" >>,
     << "We accept various payment methods including major credit cards (Visa, MasterCard, American Express) and PayPal. You can manage your payment methods in the 'Billing Information' section of your account." >>,
     << "If you've forgotten your password, you can reset it by clicking the 'Forgot Password?' link on the login page. You'll receive an email with instructions to create a new password." >>,
     << "If you need to speak with a human support agent, you can usually find a 'Contact Us' or 'Support' link on our website, which may offer options like live chat, email, or a phone number." >>,
     << "This is the **", CHATBOT_NAME, "**. I can help you manage your various memberships and subscriptions, answer questions about your account, billing, and service features." >>,
     << "To upgrade your plan, please log into your account and go to the 'Subscription' or 'Plan Details' section. You should see options to upgrade to a higher tier. What specific plan are you interested in?" >>,
     << "I'm sorry to hear you're having a billing issue. Could you please provide more details about the problem? For example, are you seeing an incorrect charge, or is a payment failing?" >> >>

\* The FAQ table in definition order (a Python dict iterates in insertion order).
FAQS ==
  [i \in 1..Len(FAQ_KEYS) |-> [keyword |-> FAQ_KEYS[i], answer |-> FAQ_ANSWERS[i]]]

\* ------------------------------------------------------------- user input
\* "hi"
MsgHi ==
  <<"h", "i">>

\* "upgrade plan"
MsgUpgrade ==
  <<"u", "p", "g", "r", "a", "d", "e", " ", "p", "l", "a", "n">>

\* "Forgot Password?"
MsgForgot ==
  <<"F", "o", "r", "g", "o", "t", " ", "P", "a", "s", "s", "w", "o", "r", "d", "?">>

\* "billing issue upgrade plan"
MsgBillingThenUpgrade ==
  <<"b", "i", "l", "l", "i", "n", "g", " ", "i", "s", "s", "u", "e", " ", "u", "p", "g", "r", "a", "d", "e", " ", "p", "l", "a", "n">>

\* "upgrade plan billing issue"
MsgUpgradeThenBilling ==
  <<"u", "p", "g", "r", "a", "d", "e", " ", "p", "l", "a", "n", " ", "b", "i", "l", "l", "i", "n", "g", " ", "i", "s", "s", "u", "e">>

\* "How do I cancel my membership?"
MsgCancelMembership ==
  <<"H", "o", "w", " ", "d", "o", " ", "I", " ", "c", "a", "n", "c", "e", "l", " ", "m", "y", " ", "m", "e", "m", "b", "e", "r", "s", "h", "i", "p", "?">>

\* "cancel subscription"
MsgNearMiss ==
  <<"c", "a", "n", "c", "e", "l", " ", "s", "u", "b", "s", "c", "r", "i", "p", "t", "i", "o", "n">>

\* "HOW TO SIGN UP"
MsgSignUpShout ==
  <<"H", "O", "W", " ", "T", "O", " ", "S", "I", "G", "N", " ", "U", "P">>

\* Every message the model can type.
Messages ==
  { MsgHi, MsgUpgrade, MsgForgot, MsgBillingThenUpgrade, MsgUpgradeThenBilling,
    MsgCancelMembership, MsgNearMiss, MsgSignUpShout }

\* The two messages of a long session: one without and one with a FAQ key.
LongMessages == { MsgHi, MsgUpgrade }

\* ------------------------------------------------------------ str helpers
UpperToLower ==
  [c \in { "A", "B", "C", "D", "E", "F", "G", "H", "I", "J", "K", "L", "M",
           "N", "O", "P", "Q", "R", "S", "T", "U", "V", "W", "X", "Y", "Z" } |->
     CASE c = "A" -> "a" [] c = "B" -> "b" [] c = "C" -> "c" [] c = "D" -> "d"
       [] c = "E" -> "e" [] c = "F" -> "f" [] c = "G" -> "g" [] c = "H" -> "h"
       [] c = "I" -> "i" [] c = "J" -> "j" [] c = "K" -> "k" [] c = "L" -> "l"
       [] c = "M" -> "m" [] c = "N" -> "n" [] c = "O" -> "o" [] c = "P" -> "p"
       [] c = "Q" -> "q" [] c = "R" -> "r" [] c = "S" -> "s" [] c = "T" -> "t"
       [] c = "U" -> "u" [] c = "V" -> "v" [] c = "W" -> "w" [] c = "X" -> "x"
       [] c = "Y" -> "y" [] c = "Z" -> "z"]

\* str.lower() on a character sequence.
Lower(s) ==
  [i \in 1..Len(s) |-> IF s[i] \in DOMAIN UpperToLower THEN UpperToLower[s[i]] ELSE s[i]]

\* `needle in haystack` for Python strings.
Contains(needle, haystack) ==
  \E i \in 1..(Len(haystack) - Len(needle) + 1) :
     SubSeq(haystack, i, i + Len(needle) - 1) = needle

\* ------------------------------------------------------------- FAQ match
\* The loop over FAQS.items(): the index of the first keyword contained in
\* the lowercased message, scanning from entry i; 0 when none matches.
RECURSIVE FaqScan(_, _)
FaqScan(user_message, i) ==
  IF i > Len(FAQS) THEN 0
  ELSE IF Contains(FAQS[i].keyword, Lower(user_message)) THEN i
  ELSE FaqScan(user_message, i + 1)

\* Variant: the loop does not return on the first match, so the last one wins.
RECURSIVE FaqScanLast(_, _, _)
FaqScanLast(user_message, i, found) ==
  IF i > Len(FAQS) THEN found
  ELSE FaqScanLast(user_message, i + 1,
                   IF Contains(FAQS[i].keyword, Lower(user_message)) THEN i ELSE found)

FaqLookupLast(user_message) == FaqScanLast(user_message, 1, 0)

FaqLookup(user_message) == FaqScan(user_message, 1)

\* ---------------------------------------------------------- fixed replies
MissingKeyReply ==
  << "Sorry, the chatbot is not configured correctly (missing API key)." >>

NoTextReply == << "Sorry, I couldn't generate a response for that." >>

BlockedReply(block_reason) ==
  << "I am unable to respond to that request due to content restrictions (",
     block_reason,
     "). Please ask a question related to memberships and subscriptions." >>

UnexpectedResponseReply ==
  << "Sorry, I received an unexpected response from the AI. Please try asking in a different way." >>

TimeoutReply == << "Sorry, the request to my AI brain timed out." >>

ConnectReply ==
  << "Sorry, I'm having trouble connecting to my brain right now. Please try again." >>

UnexpectedErrorReply == << "An unexpected error occurred. Please try again." >>

\* ------------------------------------------------------- operator reports
\* One st.error / st.warning call.
Report(level, text) == [level |-> level, text |-> text]

MissingKeyReport ==
  Report("error", << "GEMINI_API_KEY not found. Please set it in your .env file." >>)

BlockedReport(block_reason) ==
  Report("warning", << "Gemini API blocked prompt. Reason: ", block_reason >>)

UnexpectedResponseReport ==
  Report("warning", << "Unexpected Gemini API response structure: ", "{result}" >>)

TimeoutReport ==
  Report("error", << "Error: The request to the AI service timed out. Please try again shortly." >>)

RequestErrorReport(e) == Report("error", << "Error calling Gemini API: ", e >>)

UnexpectedErrorReport(e) == Report("error", << "An unexpected error occurred: ", e >>)

DbErrorReport(e) == Report("error", << "Database error during save: ", e >>)

\* ------------------------------------------------------- remote responses
\* The parsed JSON body of a 2xx response.  A key that may be missing has a
\* has... flag; isObject is FALSE for a body that is not a JSON object.
Part(hasText, text) == [hasText |-> hasText, text |-> text]

Candidate(hasContent, parts) == [hasContent |-> hasContent, parts |-> parts]

Result(hasCandidates, candidates, hasPromptFeedback, blockReason) ==
  [isObject |-> TRUE, hasCandidates |-> hasCandidates, candidates |-> candidates,
   hasPromptFeedback |-> hasPromptFeedback, blockReason |-> blockReason]

ApiText == << "You can upgrade from the Plan Details page." >>

ResText == Result(TRUE, << Candidate(TRUE, << Part(TRUE, ApiText) >>) >>, FALSE, "")

ResTextAndBlock ==
  Result(TRUE, << Candidate(TRUE, << Part(TRUE, ApiText) >>) >>, TRUE, "OTHER")

ResNoText == Result(TRUE, << Candidate(TRUE, << Part(FALSE, <<>>) >>) >>, FALSE, "")

ResNoTextBlocked ==
  Result(TRUE, << Candidate(TRUE, << Part(FALSE, <<>>) >>) >>, TRUE, "SAFETY")

ResBlocked == Result(FALSE, <<>>, TRUE, "SAFETY")

ResEmptyCandidatesBlocked == Result(TRUE, <<>>, TRUE, "OTHER")

ResNoContentBlocked == Result(TRUE, << Candidate(FALSE, <<>>) >>, TRUE, "SAFETY")

ResNoContent == Result(TRUE, << Candidate(FALSE, <<>>) >>, FALSE, "")

ResEmptyParts == Result(TRUE, << Candidate(TRUE, <<>>) >>, FALSE, "")

ResFeedbackNoReason == Result(FALSE, <<>>, TRUE, "")

ResEmpty == Result(FALSE, <<>>, FALSE, "")

ResNotObject == [ResEmpty EXCEPT !.isObject = FALSE]

Results ==
  { ResText, ResTextAndBlock, ResNoText, ResNoTextBlocked, ResBlocked,
    ResEmptyCandidatesBlocked, ResNoContentBlocked, ResNoContent, ResEmptyParts,
    ResFeedbackNoReason, ResEmpty, ResNotObject }

\* Exceptions requests.post, raise_for_status and response.json can raise.
\* response.json raises requests.JSONDecodeError (a RequestException) or
\* json.JSONDecodeError (a ValueError), depending on the requests release.
ExceptionClasses ==
  { "ReadTimeout", "ConnectTimeout", "ConnectionError", "HTTPError",
    "requests.JSONDecodeError", "json.JSONDecodeError" }

\* What the remote call does for one request: raise, or return a body.
Raises(e) == [kind |-> "raise", exc |-> e, result |-> ResEmpty]

Returns(r) == [kind |-> "ok", exc |-> "none", result |-> r]

NoCall == [kind |-> "none", exc |-> "none", result |-> ResEmpty]

Outcomes == { Raises(e) : e \in ExceptionClasses } \cup { Returns(r) : r \in Results }

IsTimeout(e) == e \in { "ReadTimeout", "ConnectTimeout" }

IsRequestException(e) ==
  IsTimeout(e) \/ e \in { "ConnectionError", "HTTPError", "requests.JSONDecodeError" }

IsException(e) ==
  IsRequestException(e) \/ e \in { "json.JSONDecodeError", "AttributeError" }

\* The outcome of the try block: the reply, the reports, and the exception
\* that leaves the block ("none" when there is none).
Resolved(reply, reports) == [exc |-> "none", reply |-> reply, reports |-> reports]

Raised(e) == [exc |-> e, reply |-> <<>>, reports |-> <<>>]

\* Variant: the block reason is tested before the candidates.
ParseResultBlockFirst(result) ==
  IF ~result.isObject THEN Raised("AttributeError")
  ELSE IF result.hasPromptFeedback /\ result.blockReason # ""
  THEN Resolved(BlockedReply(result.blockReason), << BlockedReport(result.blockReason) >>)
  ELSE IF /\ result.hasCandidates
          /\ Len(result.candidates) > 0
          /\ result.candidates[1].hasContent
          /\ Len(result.candidates[1].parts) > 0
  THEN LET part == result.candidates[1].parts[1]
       IN  Resolved(IF part.hasText THEN part.text ELSE NoTextReply, <<>>)
  ELSE Resolved(UnexpectedResponseReply, << UnexpectedResponseReport >>)

\* The if / elif / else over the parsed body.
ParseResult(result) ==
  IF ~result.isObject THEN Raised("AttributeError")
  ELSE IF /\ result.hasCandidates
          /\ Len(result.candidates) > 0
          /\ result.candidates[1].hasContent
          /\ Len(result.candidates[1].parts) > 0
  THEN LET part == result.candidates[1].parts[1]
       IN  Resolved(IF part.hasText THEN part.text ELSE NoTextReply, <<>>)
  ELSE IF result.hasPromptFeedback /\ result.blockReason # ""
  THEN Resolved(BlockedReply(result.blockReason), << BlockedReport(result.blockReason) >>)
  ELSE Resolved(UnexpectedResponseReply, << UnexpectedResponseReport >>)

\* Variant: the Timeout clause raises the exception again.
HandleExceptionReraise(e) ==
  IF IsTimeout(e) THEN Raised(e)
  ELSE IF IsRequestException(e) THEN Resolved(ConnectReply, << RequestErrorReport(e) >>)
  ELSE IF IsException(e) THEN Resolved(UnexpectedErrorReply, << UnexpectedErrorReport(e) >>)
  ELSE Raised(e)

\* Variant: the final `except Exception` clause is missing.
HandleExceptionNoCatchAll(e) ==
  IF IsTimeout(e) THEN Resolved(TimeoutReply, << TimeoutReport >>)
  ELSE IF IsRequestException(e) THEN Resolved(ConnectReply, << RequestErrorReport(e) >>)
  ELSE Raised(e)

\* The three except clauses, in source order.
HandleException(e) ==
  IF IsTimeout(e) THEN Resolved(TimeoutReply, << TimeoutReport >>)
  ELSE IF IsRequestException(e) THEN Resolved(ConnectReply, << RequestErrorReport(e) >>)
  ELSE IF IsException(e) THEN Resolved(UnexpectedErrorReply, << UnexpectedErrorReport(e) >>)
  ELSE Raised(e)

\* The whole try / except statement for one request.
RemoteCall(outcome) ==
  IF outcome.kind = "raise" THEN HandleException(outcome.exc)
  ELSE LET parsed == ParseResult(outcome.result)
       IN  IF parsed.exc = "none" THEN parsed ELSE HandleException(parsed.exc)

\* Variant: a request that raised is sent a second time.
PostRetry(sent, contents, outcome) ==
  IF outcome.kind = "raise" THEN Append(Append(sent, contents), contents)
  ELSE Append(sent, contents)

\* Variant: the priming pair is left out of `contents`.
PostWithoutPriming(sent, contents, outcome) ==
  Append(sent, SubSeq(contents, 3, Len(contents)))

\* The payload and the single requests.post: `contents` is the history list
\* itself, sent once whatever the call then does.
Post(sent, contents, outcome) == Append(sent, contents)

\* Variant: the credential is not tested.
KeyMissingUnchecked(api_key_set) == FALSE

\* The credential test before the remote call.
KeyMissing(api_key_set) == ~api_key_set

\* ------------------------------------------------------------- history
Turn(role, text) == [role |-> role, parts |-> << [text |-> text] >>]

PrimingPair ==
  << Turn("user", DOMAIN_CONTEXT),
     Turn("model", << "Understood. I am the **", CHATBOT_NAME,
                      "**. I will ONLY answer questions related to managing memberships and subscriptions as outlined. If a query is outside this scope, I will inform you that I cannot assist with it." >>) >>

Greeting ==
  [role |-> "assistant",
   content |-> << "Hello! I am the **", CHATBOT_NAME,
                  "**. How can I help you with your memberships and subscriptions today?" >>]

\* history[-n:] for 0 < n.
LastN(history, n) ==
  IF n >= Len(history) THEN history
  ELSE SubSeq(history, Len(history) - n + 1, Len(history))

\* Variant: the tail slice keeps MAX_HISTORY_TURNS entries, not twice as many.
LimitHistoryHalf(history) ==
  IF Len(history) > MAX_HISTORY_TURNS * 2 + 2
  THEN SubSeq(history, 1, 2) \o LastN(history, MAX_HISTORY_TURNS)
  ELSE history

\* Variant: the tail slice is one entry short.
LimitHistoryOdd(history) ==
  IF Len(history) > MAX_HISTORY_TURNS * 2 + 2
  THEN SubSeq(history, 1, 2) \o LastN(history, MAX_HISTORY_TURNS * 2 - 1)
  ELSE history

\* Variant: the priming pair is not spliced back in front of the tail.
LimitHistoryTail(history) ==
  IF Len(history) > MAX_HISTORY_TURNS * 2 + 2
  THEN LastN(history, MAX_HISTORY_TURNS * 2 + 2)
  ELSE history

\* Step 5 of get_bot_response.
LimitHistory(history) ==
  IF Len(history) > MAX_HISTORY_TURNS * 2 + 2
  THEN SubSeq(history, 1, 2) \o LastN(history, MAX_HISTORY_TURNS * 2)
  ELSE history

\* ------------------------------------------------------------ persistence
SessionIds == { "session-a", "session-b" }

\* What SQLite does during one save: everything works, or one of the three
\* calls raises sqlite3.Error.
DbOutcomes == { "ok", "connect", "insert", "commit" }

Row(sid, role, content) == [session_id |-> sid, role |-> role, content |-> content]

\* save_message_to_db: the table, the reports and the exception that leaves
\* the function.  When connect raises, conn is never assigned and the test
\* `if conn` in the finally clause raises UnboundLocalError.
SaveMessage(table, row, db) ==
  CASE db = "ok"      -> [table |-> Append(table, row), reports |-> <<>>, exc |-> "none"]
    [] db = "connect" -> [table |-> table, reports |-> << DbErrorReport("connect") >>,
                          exc |-> "UnboundLocalError"]
    [] OTHER          -> [table |-> table, reports |-> << DbErrorReport(db) >>, exc |-> "none"]

\* ------------------------------------------------------------------ state
VARIABLES
  api_key_set,       \* GEMINI_API_KEY is a non-empty string
  session_id,        \* st.session_state.session_id
  gemini_history,    \* st.session_state.gemini_history
  display_messages,  \* st.session_state.display_messages
  chat_logs,         \* rows of table chat_logs, in insertion order
  pc,                \* position of the script run in the chat input handler
  prompt,            \* the message of the current run
  response,          \* the value get_bot_response returned in the current run
  turns,             \* chat inputs so far
  posted,            \* `contents` of every requests.post of the current run
  reports,           \* st.error / st.warning calls of the current run
  db_calls,          \* arguments of every save_message_to_db call of the current run
  path,              \* branch get_bot_response took in the current run
  remote,            \* what the remote call of the current run did
  len_before,        \* len(gemini_history) when get_bot_response was entered
  uncaught           \* exception that ended the current run, "none" if none

vars ==
  << api_key_set, session_id, gemini_history, display_messages, chat_logs, pc,
     prompt, response, turns, posted, reports, db_calls, path, remote, len_before, uncaught >>

Init ==
  /\ api_key_set \in BOOLEAN
  /\ session_id \in SessionIds
  /\ gemini_history = PrimingPair
  /\ display_messages = << Greeting >>
  /\ chat_logs = <<>>
  /\ pc = "idle"
  /\ prompt = <<>>
  /\ response = <<>>
  /\ turns = 0
  /\ posted = <<>>
  /\ reports = <<>>
  /\ db_calls = <<>>
  /\ path = "none"
  /\ remote = NoCall
  /\ len_before = 0
  /\ uncaught = "none"

\* ---------------------------------------------------------------- actions
\* st.chat_input returns a message: a new script run starts, the message is
\* appended to the display log and shown.
ChatInput(m) ==
  /\ pc = "idle"
  /\ prompt' = m
  /\ display_messages' = Append(display_messages, [role |-> "user", content |-> m])
  /\ pc' = "save_user"
  /\ turns' = turns + 1
  /\ response' = <<>>
  /\ posted' = <<>>
  /\ reports' = <<>>
  /\ db_calls' = <<>>
  /\ path' = "none"
  /\ remote' = NoCall
  /\ len_before' = 0
  /\ uncaught' = "none"
  /\ UNCHANGED << api_key_set, session_id, gemini_history, chat_logs >>

\* One call of save_message_to_db from the handler; the run goes on at `next`
\* unless an exception leaves the function, which ends the run.
Save(role, content, db, next) ==
  LET row == Row(session_id, role, content)
      saved == SaveMessage(chat_logs, row, db)
  IN  /\ chat_logs' = saved.table
      /\ reports' = reports \o saved.reports
      /\ db_calls' = Append(db_calls, row)
      /\ uncaught' = saved.exc
      /\ pc' = IF saved.exc = "none" THEN next ELSE "idle"

\* save_message_to_db(session_id, "user", prompt)
SaveUser(db) ==
  /\ pc = "save_user"
  /\ Save("user", prompt, db, "resolve")
  /\ UNCHANGED << api_key_set, session_id, gemini_history, display_messages, prompt,
                  response, turns, posted, path, remote, len_before >>

\* get_bot_response(prompt), steps 1 to 4: up to the append of the model turn,
\* or up to one of the two early returns.
GetBotResponse(outcome) ==
  /\ pc = "resolve"
  /\ len_before' = Len(gemini_history)
  /\ LET history == Append(gemini_history, Turn("user", prompt))
         hit == FaqLookup(prompt)
     IN  IF hit # 0
         THEN /\ gemini_history' = Append(history, Turn("model", FAQS[hit].answer))
              /\ response' = FAQS[hit].answer
              /\ path' = "faq"
              /\ pc' = "show"
              /\ UNCHANGED << posted, reports, remote, uncaught >>
         ELSE IF KeyMissing(api_key_set)
         THEN /\ gemini_history' = history
              /\ reports' = Append(reports, MissingKeyReport)
              /\ response' = MissingKeyReply
              /\ path' = "nokey"
              /\ pc' = "show"
              /\ UNCHANGED << posted, remote, uncaught >>
         ELSE LET called == RemoteCall(outcome)
              IN  /\ posted' = Post(posted, history, outcome)
                  /\ reports' = reports \o called.reports
                  /\ path' = "remote"
                  /\ remote' = outcome
                  /\ IF called.exc = "none"
                     THEN /\ gemini_history' = Append(history, Turn("model", called.reply))
                          /\ response' = called.reply
                          /\ pc' = "limit"
                          /\ UNCHANGED uncaught
                     ELSE /\ gemini_history' = history
                          /\ uncaught' = called.exc
                          /\ pc' = "idle"
                          /\ UNCHANGED response
  /\ UNCHANGED << api_key_set, session_id, display_messages, chat_logs, prompt, turns,
                  db_calls >>

\* get_bot_response, step 5 and the return.
LimitAndReturn ==
  /\ pc = "limit"
  /\ gemini_history' = LimitHistory(gemini_history)
  /\ pc' = "show"
  /\ UNCHANGED << api_key_set, session_id, display_messages, chat_logs, prompt, response,
                  turns, posted, reports, db_calls, path, remote, len_before, uncaught >>

\* st.markdown(response) and the append to the display log.
ShowResponse ==
  /\ pc = "show"
  /\ display_messages' = Append(display_messages, [role |-> "assistant", content |-> response])
  /\ pc' = "save_bot"
  /\ UNCHANGED << api_key_set, session_id, gemini_history, chat_logs, prompt, response,
                  turns, posted, reports, db_calls, path, remote, len_before, uncaught >>

\* save_message_to_db(session_id, "assistant", response)
SaveBot(db) ==
  /\ pc = "save_bot"
  /\ Save("assistant", response, db, "idle")
  /\ UNCHANGED << api_key_set, session_id, gemini_history, display_messages, prompt,
                  response, turns, posted, path, remote, len_before >>

\* ---------------------------------------------------------- specifications
\* One step of a session whose inputs come from the given sets.
Step(messages, outcomes, dbs, max_turns) ==
  \/ \E m \in messages : turns < max_turns /\ ChatInput(m)
  \/ \E db \in dbs : SaveUser(db)
  \/ \E outcome \in outcomes : GetBotResponse(outcome)
  \/ LimitAndReturn
  \/ ShowResponse
  \/ \E db \in dbs : SaveBot(db)

\* Long sessions: any mix of FAQ and non-FAQ messages, the remote call answers
\* with text, every save works.
Next == Step(LongMessages, { Returns(ResText) }, { "ok" }, MaxTurns)

Spec == Init /\ [][Next]_vars

\* Short sessions over every message.
NextFaq == Step(Messages, { Returns(ResText) }, { "ok" }, MaxShortTurns)

SpecFaq == Init /\ [][NextFaq]_vars

\* Short sessions over every outcome of the remote call.
NextRemote == Step(LongMessages, Outcomes, { "ok" }, MaxShortTurns)

SpecRemote == Init /\ [][NextRemote]_vars

\* Short sessions over every outcome of the two saves.
NextDb == Step(LongMessages, { Returns(ResText), Raises("ReadTimeout") }, DbOutcomes, MaxShortTurns)

SpecDb == Init /\ [][NextDb]_vars

\* Short sessions over the failures of a turn: the remote call answers with
\* text, times out, fails in transport, returns a non-2xx status, is blocked,
\* or returns a malformed body; opening the database works or fails.
FailureOutcomes ==
  { Returns(ResText), Raises("ReadTimeout"), Raises("ConnectionError"),
    Raises("HTTPError"), Returns(ResBlocked), Returns(ResEmpty), Returns(ResNotObject) }

CrashingDbOutcomes == { "ok", "connect" }

NextFair == Step(LongMessages, FailureOutcomes, CrashingDbOutcomes, MaxFairTurns)

\* The steps of a script run after the input: the script runs them one after
\* the other, the request returns or raises within its 30 second timeout and
\* each SQLite call returns or raises, so an enabled step is taken.
RunStep ==
  \/ \E db \in CrashingDbOutcomes : SaveUser(db)
  \/ \E outcome \in FailureOutcomes : GetBotResponse(outcome)
  \/ LimitAndReturn
  \/ ShowResponse
  \/ \E db \in CrashingDbOutcomes : SaveBot(db)

SpecFair == Init /\ [][NextFair]_vars /\ WF_vars(RunStep)

\* ----------------------------------------------------------------- claims
HistoryBound == MAX_HISTORY_TURNS * 2 + 2

\* get_bot_response has reached the point after its last append and before
\* step 5: it is at step 5, or it has returned early.
ResolvedBeforeLimit ==
  pc = "limit" \/ (pc = "show" /\ path \in { "faq", "nokey" })

\* C1: on every resolution path, the history after resolution and before any
\* truncation is exactly 2 entries longer than at the call: the User turn of
\* the message followed by one Model turn.
C1_HistoryGrowsByTwo ==
  ResolvedBeforeLimit =>
    /\ Len(gemini_history) = len_before + 2
    /\ gemini_history[len_before + 1] = Turn("user", prompt)
    /\ gemini_history[len_before + 2].role = "model"

\* C2: between turns the history never holds more than 2*maxTurns+2 entries.
C2_HistoryBounded ==
  pc = "idle" => Len(gemini_history) <= HistoryBound

\* C3: the truncation step turns a history of more than 2*maxTurns+2 entries
\* into its first 2 entries followed by its last 2*maxTurns entries, in order,
\* and leaves a history within the bound unchanged.
C3_TruncationStep ==
  [][pc = "limit" =>
       IF Len(gemini_history) > HistoryBound
       THEN /\ Len(gemini_history') = HistoryBound
            /\ \A i \in 1..2 : gemini_history'[i] = gemini_history[i]
            /\ \A i \in 1..(2 * MAX_HISTORY_TURNS) :
                 gemini_history'[2 + i] =
                   gemini_history[Len(gemini_history) - 2 * MAX_HISTORY_TURNS + i]
       ELSE gemini_history' = gemini_history]_vars

\* A run whose truncation step cut a history of 26 entries down to 22.
C3_Witness ==
  /\ pc = "show"
  /\ path = "remote"
  /\ len_before + 2 > HistoryBound + 2
  /\ Len(gemini_history) = HistoryBound

\* C4: in every reachable state the first two entries of the history are the
\* priming pair created at session start.
C4_PrimingPairKept ==
  /\ Len(gemini_history) >= 2
  /\ gemini_history[1] = Turn("user", DOMAIN_CONTEXT)
  /\ gemini_history[2] = PrimingPair[2]
  /\ gemini_history[2].role = "model"

\* A session between turns whose last run truncated the history.
C4_Witness ==
  /\ pc = "idle"
  /\ path = "remote"
  /\ len_before >= HistoryBound
  /\ Len(gemini_history) = HistoryBound
  /\ SubSeq(gemini_history, 1, 2) = PrimingPair

\* The FAQ entries whose keyword the lowercased message contains.
FaqHits(m) == { i \in DOMAIN FAQS : Contains(FAQS[i].keyword, Lower(m)) }

FirstHit(m) == CHOOSE i \in FaqHits(m) : \A j \in FaqHits(m) : i <= j

\* C5: a message whose lowercased text contains a FAQ key gets the canned
\* answer of the first such key in table order and no remote request is
\* issued, with or without a credential.
C5_FaqHit ==
  (path # "none" /\ FaqHits(prompt) # {}) =>
    /\ response = FAQS[FirstHit(prompt)].answer
    /\ posted = <<>>

\* "billing issue upgrade plan", credential configured: the answer is that of
\* "upgrade plan", which comes first in the table and second in the message.
C5_Witness ==
  /\ path = "faq"
  /\ api_key_set
  /\ prompt = MsgBillingThenUpgrade
  /\ response = FAQS[8].answer
  /\ posted = <<>>

\* C6: without a credential, a message that matches no FAQ key gets the fixed
\* configuration-error reply and no remote request is issued.
C6_MissingCredential ==
  (path # "none" /\ ~api_key_set /\ FaqHits(prompt) = {}) =>
    /\ response = MissingKeyReply
    /\ posted = <<>>

\* "cancel subscription" without a credential.
C6_Witness ==
  /\ path = "nokey"
  /\ ~api_key_set
  /\ prompt = MsgNearMiss
  /\ response = MissingKeyReply
  /\ posted = <<>>

\* The run got a 2xx response with a parsed body.
GotBody == path = "remote" /\ remote.kind = "ok"

Body == remote.result

FirstHasParts(r) ==
  /\ r.hasCandidates
  /\ Len(r.candidates) > 0
  /\ r.candidates[1].hasContent
  /\ Len(r.candidates[1].parts) > 0

FirstHasText(r) == FirstHasParts(r) /\ r.candidates[1].parts[1].hasText

HasBlockReason(r) == r.hasPromptFeedback /\ r.blockReason # ""

Warned == \E i \in DOMAIN reports : reports[i].level = "warning"

\* C7 as stated, read for bodies that are JSON objects: the reply to a 2xx
\* response is the first candidate's text if it carries text; otherwise the
\* refusal naming the block reason, with a warning, if there is a block
\* reason; otherwise the `unexpected response` fallback, with a warning.
C7_CascadeAsStated ==
  (GotBody /\ Body.isObject) =>
    IF FirstHasText(Body) THEN response = Body.candidates[1].parts[1].text
    ELSE IF HasBlockReason(Body)
    THEN /\ response = BlockedReply(Body.blockReason)
         /\ Body.blockReason \in { response[i] : i \in DOMAIN response }
         /\ Warned
    ELSE response = UnexpectedResponseReply /\ Warned

\* C7 amended: for a 2xx response whose body is a JSON object, if the first
\* candidate's content has a non-empty parts list the reply is the text of
\* the first part, or the fixed `couldn't generate a response` string when
\* that part has no text, without a warning; otherwise the refusal naming the
\* block reason, with a warning, if there is a block reason; otherwise the
\* `unexpected response` fallback, with a warning.
C7_Cascade ==
  (GotBody /\ Body.isObject) =>
    IF FirstHasParts(Body)
    THEN /\ response = IF Body.candidates[1].parts[1].hasText
                       THEN Body.candidates[1].parts[1].text
                       ELSE << "Sorry, I couldn't generate a response for that." >>
         /\ ~Warned
    ELSE IF HasBlockReason(Body)
    THEN /\ response = BlockedReply(Body.blockReason)
         /\ Body.blockReason \in { response[i] : i \in DOMAIN response }
         /\ Warned
    ELSE response = UnexpectedResponseReply /\ Warned

\* A first part without text, and a block reason in the same body: the reply
\* is the `couldn't generate a response` string.
C7_Witness ==
  /\ GotBody
  /\ Body = ResNoTextBlocked
  /\ response = NoTextReply
  /\ reports = <<>>

\* The run's remote call failed: the request or the parse raised.
RemoteFailed ==
  /\ path = "remote"
  /\ \/ remote.kind = "raise"
     \/ remote.kind = "ok" /\ ~remote.result.isObject

FailureClass ==
  IF remote.kind = "raise" THEN remote.exc ELSE "AttributeError"

\* The fallback reply of each failure class.
Fallback ==
  [e \in ExceptionClasses \cup { "AttributeError" } |->
     CASE e \in { "ReadTimeout", "ConnectTimeout" } ->
            << "Sorry, the request to my AI brain timed out." >>
       [] e \in { "ConnectionError", "HTTPError", "requests.JSONDecodeError" } ->
            << "Sorry, I'm having trouble connecting to my brain right now. Please try again." >>
       [] OTHER -> << "An unexpected error occurred. Please try again." >>]

\* C8: every failure of the remote call is caught inside get_bot_response,
\* reported as an error and mapped to the fixed fallback reply of its class;
\* no exception leaves get_bot_response.
C8_FailuresCaught ==
  RemoteFailed =>
    /\ uncaught = "none"
    /\ response = Fallback[FailureClass]
    /\ \E i \in DOMAIN reports : reports[i].level = "error"

\* A body that is not a JSON object: the parse raises inside the try block
\* and the run ends with the `unexpected error` reply.
C8_Witness ==
  /\ pc = "idle"
  /\ path = "remote"
  /\ remote = Returns(ResNotObject)
  /\ response = UnexpectedErrorReply
  /\ uncaught = "none"

\* C9: a failure of the persistence sink at any step of save_message_to_db is
\* never raised to the conversation flow.
C9_SaveNeverRaises ==
  db_calls # <<>> => uncaught = "none"

\* C10: every handled message gets exactly two save attempts, the user row
\* before the reply is resolved and the assistant row with the returned reply
\* after it, both under the session id.
C10_TwoWritesPerTurn ==
  /\ pc = "resolve" => db_calls = << Row(session_id, "user", prompt) >>
  /\ (pc = "idle" /\ turns > 0) =>
       db_calls = << Row(session_id, "user", prompt),
                     Row(session_id, "assistant", response) >>

\* C11: when get_bot_response(m) has returned r, the last two entries of the
\* history are the User turn of m followed by the Model turn of r.
C11_LastTwoAreMessageAndReply ==
  pc = "show" =>
    /\ Len(gemini_history) >= 2
    /\ gemini_history[Len(gemini_history) - 1] = Turn("user", prompt)
    /\ gemini_history[Len(gemini_history)] = Turn("model", response)

\* C12: for each message exactly one remote request is issued when no FAQ
\* key matches and a credential is configured, none otherwise, and a failed
\* request is not sent again in the same run.
C12_RequestsPerMessage ==
  /\ path = "none" => posted = <<>>
  /\ path # "none" =>
       Len(posted) = IF FaqHits(prompt) = {} /\ api_key_set THEN 1 ELSE 0

\* A run whose only request timed out, at its end.
C12_Witness ==
  /\ pc = "idle"
  /\ path = "remote"
  /\ remote = Raises("ReadTimeout")
  /\ response = TimeoutReply
  /\ Len(posted) = 1

\* C13: the `contents` of a remote request for message m is the whole history
\* at the time of the call, in order: it starts with the priming pair, ends
\* with the User turn of m and holds no Model turn for m.
C13_ContentsIsHistory ==
  (pc = "limit" /\ path = "remote") =>
    /\ Len(posted) = 1
    /\ Len(posted[1]) = len_before + 1
    /\ posted[1] = SubSeq(gemini_history, 1, Len(gemini_history) - 1)
    /\ SubSeq(posted[1], 1, 2) = PrimingPair
    /\ posted[1][Len(posted[1])] = Turn("user", prompt)
    /\ gemini_history[Len(gemini_history)].role = "model"

\* A request sent after FAQ hits had let the history grow past the bound:
\* all 25 entries are sent.
C13_Witness ==
  /\ pc = "limit"
  /\ path = "remote"
  /\ Len(posted) = 1
  /\ Len(posted[1]) > HistoryBound + 2
  /\ posted[1][Len(posted[1])] = Turn("user", prompt)

\* The texts a Model turn carries after a failed remote call.
FailureTexts ==
  { TimeoutReply, ConnectReply, UnexpectedErrorReply, UnexpectedResponseReply }
    \cup { BlockedReply(reason) : reason \in { "SAFETY", "OTHER" } }

\* The turn before the one being resolved ended in a failure: the history at
\* the call ended with a failure reply, or with a User turn that got no Model
\* turn (missing credential).
PreviousTurnFailed ==
  /\ path # "none"
  /\ len_before >= 3
  /\ len_before <= Len(gemini_history)
  /\ \/ gemini_history[len_before].role = "user"
     \/ gemini_history[len_before].parts[1].text \in FailureTexts

\* C14: after a failure outcome of a turn the session awaits input again and
\* the next message is resolved normally: a message with a FAQ key gets that
\* key's canned text, every resolution that starts returns a reply, and every
\* run ends.
C14_UsableAfterFailure ==
  /\ [](PreviousTurnFailed /\ FaqHits(prompt) # {} =>
          response = FAQS[FirstHit(prompt)].answer /\ path = "faq")
  /\ (pc = "resolve") ~> (pc = "show" /\ path # "none" /\ response # <<>>)
  /\ (pc # "idle") ~> (pc = "idle")

\* A FAQ hit answered right after a turn whose request timed out.
C14_Witness ==
  /\ pc = "idle"
  /\ path = "faq"
  /\ len_before >= 4
  /\ gemini_history[len_before].parts[1].text = TimeoutReply
  /\ prompt = MsgUpgrade
  /\ response = FAQS[8].answer
  /\ uncaught = "none"

\* C15: the display log starts with the greeting and every handled message
\* adds one user entry with the message followed by one assistant entry with
\* the returned reply, so between turns it holds 1+2n entries after n turns.
C15_DisplayLog ==
  /\ display_messages[1] = Greeting
  /\ pc = "idle" =>
       /\ Len(display_messages) = 1 + 2 * turns
       /\ turns > 0 =>
            /\ display_messages[Len(display_messages) - 1] =
                 [role |-> "user", content |-> prompt]
            /\ display_messages[Len(display_messages)] =
                 [role |-> "assistant", content |-> response]

\* C16: with a credential configured, between turns the history has even
\* length and its roles alternate user, model, user, model, ... from the
\* first entry, also right after the priming pair of a truncated history.
C16_RolesAlternate ==
  (api_key_set /\ pc = "idle") =>
    /\ Len(gemini_history) % 2 = 0
    /\ \A i \in DOMAIN gemini_history :
         gemini_history[i].role = IF i % 2 = 1 THEN "user" ELSE "model"

\* A session with a credential, between turns, whose last run cut a history
\* of 24 or more entries: the entry after the priming pair is a User turn.
C16_Witness ==
  /\ api_key_set
  /\ pc = "idle"
  /\ path = "remote"
  /\ len_before + 2 > HistoryBound
  /\ Len(gemini_history) = HistoryBound
  /\ gemini_history[3].role = "user"
  /\ gemini_history[4].role = "model"
====
